---------------------------- MODULE Spec2Model ----------------------------
(***************************************************************************)
(* Layered resolution of the node configuration (src/src/config.rs):       *)
(* compiled-in defaults, overlaid by the TOML configuration file           *)
(* (Config::from_file), overlaid by the command line (create_app_config).  *)
(*                                                                         *)
(* Encodings                                                               *)
(*   Option<T>      a sequence: << >> is None, << x >> is Some(x)          *)
(*   toml::Value    a record [t, s, i, b]: the variant tag and the payload *)
(*                  of the String, Integer and Boolean variants            *)
(*   a TOML table   a function from keys to Option<Value>                  *)
(*   a file         [kind, map]: "malformed" (the content does not parse)  *)
(*                  or "toml" with the parsed table; a file that cannot be *)
(*                  read is a path the file system does not hold           *)
(*   command line   a function from long option names to Option<text>;    *)
(*                  the text of a port option is a sequence of characters  *)
(*                  (it is parsed), any other text is a string             *)
(* Integers of the file are i64 in the program; the values enumerated here *)
(* are representatives inside the range of the model checker's integers.   *)
(***************************************************************************)
EXTENDS Integers, Sequences, FiniteSets, TLC

VARIABLES
    op,       \* the operation that ran: "init" before any
    fs,       \* the file system: path -> file
    argv,     \* the command line of the process
    cfg_path, \* the path from_file was given ("" when it was not called)
    rec,      \* the record handed to the serialisation test
    outcome,  \* "none", "record", "usage_error", "panic", "Some", "None"
    config    \* Option<Config>: the record produced, if any

vars == <<op, fs, argv, cfg_path, rec, outcome, config>>

None == << >>
Some(x) == << x >>
IsSome(o) == Len(o) > 0
Unwrap(o) == o[1]

----------------------------------------------------------------------------
(* Compiled-in constants                                                   *)

DEFAULT_CONFIG_FILE == "config.toml"
DEFAULT_LOG_LEVEL == "info"
DEFAULT_BOOTSTRAP_PATH == "data/bootstrap.wasm"
DEFAULT_NETWORK_ID == "skynet"
DEFAULT_BLOCK_THRESHOLD == 42
DEFAULT_BLOCK_TIMEOUT == 3
DEFAULT_HTTP_ADDR == "127.0.0.1"
DEFAULT_HTTP_PORT == 8000
DEFAULT_BRIDGE_ADDR == "127.0.0.1"
DEFAULT_BRIDGE_PORT == 8001
DEFAULT_P2P_ADDR == "127.0.0.1"
DEFAULT_DB_PATH == "db"
DEFAULT_WM_CACHE_MAX == 10

\* The number of values of a u16.
U16Modulus == 65536

\* impl Default for Config
Default ==
    [ log_level       |-> DEFAULT_LOG_LEVEL,
      validator       |-> FALSE,
      keypair_path    |-> None,
      network         |-> DEFAULT_NETWORK_ID,
      block_threshold |-> DEFAULT_BLOCK_THRESHOLD,
      block_timeout   |-> DEFAULT_BLOCK_TIMEOUT,
      rest_addr       |-> DEFAULT_HTTP_ADDR,
      rest_port       |-> DEFAULT_HTTP_PORT,
      bridge_addr     |-> DEFAULT_BRIDGE_ADDR,
      bridge_port     |-> DEFAULT_BRIDGE_PORT,
      p2p_addr        |-> DEFAULT_P2P_ADDR,
      db_path         |-> DEFAULT_DB_PATH,
      bootstrap_path  |-> DEFAULT_BOOTSTRAP_PATH,
      wm_cache_max    |-> DEFAULT_WM_CACHE_MAX ]

----------------------------------------------------------------------------
(* toml::Value and the accessors from_file uses                            *)

StrV(x)  == [t |-> "String",  s |-> x,  i |-> 0, b |-> FALSE]
IntV(x)  == [t |-> "Integer", s |-> "", i |-> x, b |-> FALSE]
BoolV(x) == [t |-> "Boolean", s |-> "", i |-> 0, b |-> x]
FloatV   == [t |-> "Float",   s |-> "", i |-> 0, b |-> FALSE]

\* The keys from_file looks up, and one it does not.
Keys == { "validator", "log-level", "keypair-path", "network", "rest-addr",
          "rest-port", "bridge-addr", "bridge-port", "p2p-addr",
          "block-threshold", "block-timeout", "db-path", "bootstrap-path",
          "wm-cache-max" }
UnknownKey == "comment"
AllKeys == Keys \cup {UnknownKey}

EmptyMap == [k \in AllKeys |-> None]

\* Value::get(key) on the top-level table
get(map, key) == map[key]

\* A variant of as_str that converts instead of testing the variant: any
\* value yields a string. PerFieldTolerance must tell it from as_str.
as_str_lossy(o) == IF IsSome(o) THEN Some(Unwrap(o).s) ELSE None

\* Value::as_bool, Value::as_str, Value::as_integer behind Option::and_then
as_bool(o) == IF IsSome(o) /\ Unwrap(o).t = "Boolean" THEN Some(Unwrap(o).b) ELSE None
as_str(o) == IF IsSome(o) /\ Unwrap(o).t = "String" THEN Some(Unwrap(o).s) ELSE None
as_integer(o) == IF IsSome(o) /\ Unwrap(o).t = "Integer" THEN Some(Unwrap(o).i) ELSE None

\* Bit n of the two's complement representation of v (\div rounds down).
Bit(v, n) == (v \div (2 ^ n)) % 2

RECURSIVE LowBits(_, _)
LowBits(v, n) == IF n = 0 THEN 0 ELSE LowBits(v, n - 1) + Bit(v, n - 1) * (2 ^ (n - 1))

\* A variant of AsU16 that saturates at the ends of 0..65535.
\* SixteenBitNarrowing must tell it from AsU16.
AsU16Saturating(v) == IF v < 0 THEN 0 ELSE IF v > U16Modulus - 1 THEN U16Modulus - 1 ELSE v

\* `value as u16` of an i64: the low 16 bits are kept.
AsU16(v) == LowBits(v, 16)

\* `value as usize` of an i64 on a 64-bit target: the 64 bits are kept, which
\* changes no value from 0 up; the files enumerated give these keys no
\* negative integer.
AsUsize(v) == v

\* Config::from_file past the read and the parse: the overlay of the table.
Overlay(base, map) ==
    [ validator       |-> IF IsSome(as_bool(get(map, "validator")))
                          THEN Unwrap(as_bool(get(map, "validator")))
                          ELSE base.validator,
      log_level       |-> IF IsSome(as_str(get(map, "log-level")))
                          THEN Unwrap(as_str(get(map, "log-level")))
                          ELSE base.log_level,
      keypair_path    |-> IF IsSome(as_str(get(map, "keypair-path")))
                          THEN Some(Unwrap(as_str(get(map, "keypair-path"))))
                          ELSE base.keypair_path,
      network         |-> IF IsSome(as_str(get(map, "network")))
                          THEN Unwrap(as_str(get(map, "network")))
                          ELSE base.network,
      rest_addr       |-> IF IsSome(as_str(get(map, "rest-addr")))
                          THEN Unwrap(as_str(get(map, "rest-addr")))
                          ELSE base.rest_addr,
      rest_port       |-> IF IsSome(as_integer(get(map, "rest-port")))
                          THEN AsU16(Unwrap(as_integer(get(map, "rest-port"))))
                          ELSE base.rest_port,
      bridge_addr     |-> IF IsSome(as_str(get(map, "bridge-addr")))
                          THEN Unwrap(as_str(get(map, "bridge-addr")))
                          ELSE base.bridge_addr,
      bridge_port     |-> IF IsSome(as_integer(get(map, "bridge-port")))
                          THEN AsU16(Unwrap(as_integer(get(map, "bridge-port"))))
                          ELSE base.bridge_port,
      p2p_addr        |-> IF IsSome(as_str(get(map, "p2p-addr")))
                          THEN Unwrap(as_str(get(map, "p2p-addr")))
                          ELSE base.p2p_addr,
      block_threshold |-> IF IsSome(as_integer(get(map, "block-threshold")))
                          THEN AsUsize(Unwrap(as_integer(get(map, "block-threshold"))))
                          ELSE base.block_threshold,
      block_timeout   |-> IF IsSome(as_integer(get(map, "block-timeout")))
                          THEN AsU16(Unwrap(as_integer(get(map, "block-timeout"))))
                          ELSE base.block_timeout,
      db_path         |-> IF IsSome(as_str(get(map, "db-path")))
                          THEN Unwrap(as_str(get(map, "db-path")))
                          ELSE base.db_path,
      bootstrap_path  |-> IF IsSome(as_str(get(map, "bootstrap-path")))
                          THEN Unwrap(as_str(get(map, "bootstrap-path")))
                          ELSE base.bootstrap_path,
      wm_cache_max    |-> IF IsSome(as_integer(get(map, "wm-cache-max")))
                          THEN AsUsize(Unwrap(as_integer(get(map, "wm-cache-max"))))
                          ELSE base.wm_cache_max ]

\* The paths the command line can select; a path fs does not hold is a file
\* that cannot be read.
Paths == {DEFAULT_CONFIG_FILE, "alt.toml"}

\* fs::read_to_string(path): Ok(content) is Some, Err is None
read_to_string(files, path) ==
    IF path \in DOMAIN files THEN Some(files[path]) ELSE None

\* content.parse::<Value>(): Ok(map) is Some, Err is None
parse(content) == IF content.kind = "toml" THEN Some(content.map) ELSE None

\* A variant of from_file that answers a file that does not parse with the
\* defaults. FatalMalformedFile must tell it from from_file.
from_file_lenient(files, path) ==
    LET read == read_to_string(files, path) IN
    IF ~IsSome(read) \/ ~IsSome(parse(Unwrap(read))) THEN Some(Default)
    ELSE Some(Overlay(Default, Unwrap(parse(Unwrap(read)))))

\* Config::from_file(path): Option<Config>
from_file(files, path) ==
    LET read == read_to_string(files, path) IN
    IF ~IsSome(read) THEN Some(Default)
    ELSE LET map == parse(Unwrap(read)) IN
         IF ~IsSome(map) THEN None
         ELSE Some(Overlay(Default, Unwrap(map)))

----------------------------------------------------------------------------
(* The command line: clap's App of create_app_config                       *)

\* Arg::with_name of the App
RegisteredArgs == { "config", "validator", "log-level", "network", "db-path",
                    "bootstrap-path", "http-addr", "http-port", "bridge-addr",
                    "bridge-port", "p2p-addr" }

\* .possible_values of --log-level
possible_values == {"off", "error", "warn", "info", "debug", "trace"}

\* What a user can type: the registered options and one that is not.
CmdOptions == RegisteredArgs \cup {"boot-path"}

\* A variant of get_matches without the possible_values of --log-level.
\* EnumerationRejection must tell it from get_matches.
get_matches_any_level(args) ==
    IF \E o \in DOMAIN args : o \notin RegisteredArgs /\ IsSome(args[o])
    THEN None
    ELSE Some([o \in RegisteredArgs |-> args[o]])

\* App::get_matches(): the matches, or None when clap prints a usage error and
\* exits the process (an option that is not registered, a --log-level value
\* outside possible_values).
get_matches(args) ==
    IF \/ \E o \in DOMAIN args : o \notin RegisteredArgs /\ IsSome(args[o])
       \/ /\ IsSome(args["log-level"])
          /\ Unwrap(args["log-level"]) \notin possible_values
    THEN None
    ELSE Some([o \in RegisteredArgs |-> args[o]])

\* ArgMatches::value_of(name): None for an option that did not occur, and for
\* a name the App never registered.
value_of(matches, name) == IF name \in DOMAIN matches THEN matches[name] ELSE None

\* ArgMatches::is_present(name)
is_present(matches, name) == name \in DOMAIN matches /\ IsSome(matches[name])

Digits == {"0", "1", "2", "3", "4", "5", "6", "7", "8", "9"}

DigitValue(c) ==
    CASE c = "0" -> 0 [] c = "1" -> 1 [] c = "2" -> 2 [] c = "3" -> 3
      [] c = "4" -> 4 [] c = "5" -> 5 [] c = "6" -> 6 [] c = "7" -> 7
      [] c = "8" -> 8 [] c = "9" -> 9

\* The digit loop of u16::from_str: checked_mul(10) and checked_add(digit);
\* an invalid digit or an overflow is an Err.
RECURSIVE ParseDigits(_, _)
ParseDigits(text, acc) ==
    IF text = << >> THEN Some(acc)
    ELSE IF Head(text) \notin Digits THEN None
    ELSE IF acc * 10 + DigitValue(Head(text)) > U16Modulus - 1 THEN None
    ELSE ParseDigits(Tail(text), acc * 10 + DigitValue(Head(text)))

\* A variant of ParseU16 that parses a wider integer and narrows it with
\* `as u16`. CliPortCoercion must tell it from ParseU16.
RECURSIVE ParseDigitsWide(_, _)
ParseDigitsWide(text, acc) ==
    IF text = << >> THEN Some(acc % U16Modulus)
    ELSE IF Head(text) \notin Digits THEN None
    ELSE ParseDigitsWide(Tail(text), acc * 10 + DigitValue(Head(text)))

ParseU16Wrapping(text) ==
    IF text = << >> THEN None
    ELSE IF Len(text) = 1 /\ Head(text) \in {"+", "-"} THEN None
    ELSE IF Head(text) = "+" THEN ParseDigitsWide(Tail(text), 0)
    ELSE ParseDigitsWide(text, 0)

\* value.parse::<u16>().ok(): an empty text, a lone sign, a '-' are an Err; one
\* leading '+' is accepted.
ParseU16(text) ==
    IF text = << >> THEN None
    ELSE IF Len(text) = 1 /\ Head(text) \in {"+", "-"} THEN None
    ELSE IF Head(text) = "+" THEN ParseDigits(Tail(text), 0)
    ELSE ParseDigits(text, 0)

\* create_app_config after from_file: "Tweak configuration using command line
\* arguments."
ApplyArgs(base, matches) ==
    [ base EXCEPT
      !.validator      = IF is_present(matches, "validator") THEN TRUE ELSE @,
      !.log_level      = IF IsSome(value_of(matches, "log-level"))
                         THEN Unwrap(value_of(matches, "log-level")) ELSE @,
      !.network        = IF IsSome(value_of(matches, "network"))
                         THEN Unwrap(value_of(matches, "network")) ELSE @,
      !.db_path        = IF IsSome(value_of(matches, "db-path"))
                         THEN Unwrap(value_of(matches, "db-path")) ELSE @,
      !.bootstrap_path = IF IsSome(value_of(matches, "boot-path"))
                         THEN Unwrap(value_of(matches, "boot-path")) ELSE @,
      !.rest_addr      = IF IsSome(value_of(matches, "http-addr"))
                         THEN Unwrap(value_of(matches, "http-addr")) ELSE @,
      !.rest_port      = IF /\ IsSome(value_of(matches, "http-port"))
                            /\ IsSome(ParseU16(Unwrap(value_of(matches, "http-port"))))
                         THEN Unwrap(ParseU16(Unwrap(value_of(matches, "http-port"))))
                         ELSE @,
      !.bridge_addr    = IF IsSome(value_of(matches, "bridge-addr"))
                         THEN Unwrap(value_of(matches, "bridge-addr")) ELSE @,
      !.bridge_port    = IF /\ IsSome(value_of(matches, "bridge-port"))
                            /\ IsSome(ParseU16(Unwrap(value_of(matches, "bridge-port"))))
                         THEN Unwrap(ParseU16(Unwrap(value_of(matches, "bridge-port"))))
                         ELSE @,
      !.p2p_addr       = IF IsSome(value_of(matches, "p2p-addr"))
                         THEN Unwrap(value_of(matches, "p2p-addr")) ELSE @ ]

\* let config_file = matches.value_of("config").unwrap_or(DEFAULT_CONFIG_FILE)
config_file(matches) ==
    IF IsSome(value_of(matches, "config"))
    THEN Unwrap(value_of(matches, "config")) ELSE DEFAULT_CONFIG_FILE

\* create_app_config(): how the call ends, the path it read and the record it
\* returns. get_matches exits on a usage error before any file is read;
\* .expect("Bad config file") panics when from_file returns None.
create_app_config(files, args) ==
    LET m == get_matches(args) IN
    IF ~IsSome(m)
    THEN [outcome |-> "usage_error", path |-> "", config |-> None]
    ELSE LET file == config_file(Unwrap(m))
             loaded == from_file(files, file)
         IN  IF ~IsSome(loaded)
             THEN [outcome |-> "panic", path |-> file, config |-> None]
             ELSE [outcome |-> "record", path |-> file,
                   config |-> Some(ApplyArgs(Unwrap(loaded), Unwrap(m)))]

----------------------------------------------------------------------------
(* The serialisation of the tests module                                   *)

\* Strings a TOML literal string ('...') cannot hold.
StringsWithQuote == {"o'clock"}

\* impl Display for Config: the lines written, each a key and the value its
\* text denotes ({} of a bool or an integer, '{}' of a string).
Display(c) ==
    << [key |-> "validator",       val |-> BoolV(c.validator)],
       [key |-> "log-level",       val |-> StrV(c.log_level)],
       [key |-> "network",         val |-> StrV(c.network)],
       [key |-> "block-threshold", val |-> IntV(c.block_threshold)],
       [key |-> "block-timeout",   val |-> IntV(c.block_timeout)],
       [key |-> "rest-addr",       val |-> StrV(c.rest_addr)],
       [key |-> "rest-port",       val |-> IntV(c.rest_port)],
       [key |-> "bridge-addr",     val |-> StrV(c.bridge_addr)],
       [key |-> "bridge-port",     val |-> IntV(c.bridge_port)],
       [key |-> "p2p-addr",        val |-> StrV(c.p2p_addr)],
       [key |-> "db-path",         val |-> StrV(c.db_path)],
       [key |-> "bootstrap-path",  val |-> StrV(c.bootstrap_path)],
       [key |-> "wm-cache-max",    val |-> IntV(c.wm_cache_max)] >>

\* writeln!(&mut file, "{}", config): the content of the temporary file. A
\* quote inside '...' ends the literal early and the rest of the line does not
\* parse.
written(lines) ==
    IF \E n \in DOMAIN lines :
          lines[n].val.t = "String" /\ lines[n].val.s \in StringsWithQuote
    THEN [kind |-> "malformed", map |-> EmptyMap]
    ELSE [kind |-> "toml",
          map |-> [k \in AllKeys |->
                     IF \E n \in DOMAIN lines : lines[n].key = k
                     THEN Some(lines[CHOOSE n \in DOMAIN lines : lines[n].key = k].val)
                     ELSE None]]

\* tests::create_test_config
create_test_config ==
    [ log_level       |-> "debug",
      validator       |-> TRUE,
      keypair_path    |-> None,
      network         |-> "dummy_network",
      block_threshold |-> 1234,
      block_timeout   |-> 4321,
      rest_addr       |-> "1.2.3.4",
      rest_port       |-> 123,
      bridge_addr     |-> "5.6.7.8",
      bridge_port     |-> 987,
      p2p_addr        |-> "9.1.2.3",
      db_path         |-> "dummy/db/path",
      bootstrap_path  |-> "dummy/boot/path",
      wm_cache_max    |-> 42 ]

TempFile == "tmp/from_file"

\* tests::from_file on a record: "passed", "assert_failed" (assert_eq!) or
\* "panic" (the unwrap of from_file's None), with what from_file returned.
test_from_file(c) ==
    LET files == [p \in {TempFile} |-> written(Display(c))]
        got == from_file(files, TempFile)
    IN  [ files   |-> files,
          config  |-> got,
          outcome |-> IF ~IsSome(got) THEN "panic"
                      ELSE IF Unwrap(got) = c THEN "passed" ELSE "assert_failed" ]

----------------------------------------------------------------------------
(* The inputs enumerated                                                   *)

\* How many keys of the file and options of the command line together, or
\* how many fields of a record, an input changes with respect to a base input.
MaxEdits == 1

\* How many times 2^16 the integers of a file lie above or below 0..65535.
MaxWrap == 1

PortResidues == {0, 123, U16Modulus - 1}
WrapInts == {w * U16Modulus + r : w \in (-MaxWrap)..MaxWrap, r \in PortResidues}

U16Keys == {"rest-port", "bridge-port", "block-timeout"}
UsizeKeys == {"block-threshold", "wm-cache-max"}

IntsFor(k) ==
    IF k \in U16Keys THEN WrapInts
    ELSE IF k \in UsizeKeys THEN {n \in WrapInts : n >= 0}
    ELSE {123}

ValuesFor(k) ==
    {StrV("foo"), BoolV(TRUE), BoolV(FALSE), FloatV}
        \cup (IF k = "log-level" THEN {StrV("warn")} ELSE {})
        \cup {IntV(n) : n \in IntsFor(k)}

\* A file that sets every key, validly.
FullMap ==
    [k \in AllKeys |->
        CASE k = "validator"       -> Some(BoolV(TRUE))
          [] k = "log-level"       -> Some(StrV("debug"))
          [] k = "keypair-path"    -> Some(StrV("file.kp"))
          [] k = "network"         -> Some(StrV("file_net"))
          [] k = "rest-addr"       -> Some(StrV("1.2.3.4"))
          [] k = "rest-port"       -> Some(IntV(1111))
          [] k = "bridge-addr"     -> Some(StrV("5.6.7.8"))
          [] k = "bridge-port"     -> Some(IntV(2222))
          [] k = "p2p-addr"        -> Some(StrV("9.1.2.3"))
          [] k = "block-threshold" -> Some(IntV(1234))
          [] k = "block-timeout"   -> Some(IntV(4321))
          [] k = "db-path"         -> Some(StrV("file/db"))
          [] k = "bootstrap-path"  -> Some(StrV("file/boot"))
          [] k = "wm-cache-max"    -> Some(IntV(77))
          [] OTHER                 -> Some(StrV("hello"))]

\* A file that gives every key a value of the wrong shape.
WrongMap ==
    [k \in AllKeys |->
        IF k \in U16Keys \cup UsizeKeys THEN Some(StrV("not-a-number"))
        ELSE IF k = "validator" THEN Some(StrV("yes"))
        ELSE Some(IntV(5))]

\* The file at the other path.
AltFile ==
    [kind |-> "toml",
     map  |-> [EmptyMap EXCEPT !["network"] = Some(StrV("alt_net")),
                               !["rest-port"] = Some(IntV(9999)),
                               !["bootstrap-path"] = Some(StrV("alt/boot"))]]

BaseFiles ==
    { [kind |-> "absent",    map |-> EmptyMap],
      [kind |-> "malformed", map |-> EmptyMap],
      [kind |-> "toml",      map |-> EmptyMap],
      [kind |-> "toml",      map |-> FullMap],
      [kind |-> "toml",      map |-> WrongMap] }

PortOptions == {"http-port", "bridge-port"}

PortTexts ==
    { <<"4", "5", "6">>, <<"6", "5", "5", "3", "5">>, <<"6", "5", "5", "3", "6">>,
      <<"7", "0", "0", "0", "0">>, <<"-", "1">>, <<"a", "b", "c">>,
      <<"+", "8", "0">>, <<"0", "0", "8", "0">>, <<"8", "0", "x">> }

StringsFor(o) ==
    CASE o = "config"    -> {"alt.toml", "nofile.toml"}
      [] o = "validator" -> {""}
      [] o = "log-level" -> {"debug", "trace", "bogus"}
      [] OTHER           -> {"cli:" \o o}

NoArgs == [o \in CmdOptions |-> None]

\* A command line that gives every registered option but --config, validly.
FullArgs ==
    [o \in CmdOptions |->
        CASE o \in {"config", "boot-path"} -> None
          [] o = "validator"   -> Some("")
          [] o = "log-level"   -> Some("warn")
          [] o = "http-port"   -> Some(<<"4", "5", "6">>)
          [] o = "bridge-port" -> Some(<<"+", "8", "0">>)
          [] OTHER             -> Some("cli:" \o o)]

BaseArgs == {NoArgs, FullArgs}

\* One change of an input: key k of the file becomes val (None removes it), or
\* option k of the command line is given, with text str, or chars when the
\* option is a port.
FileEditSpace ==
    UNION { { [tgt |-> "file", key |-> k, val |-> v, str |-> "", chars |-> << >>] :
                v \in {None} \cup {Some(x) : x \in ValuesFor(k)} } :
            k \in AllKeys }

ArgEditSpace ==
    UNION { IF o \in PortOptions
            THEN { [tgt |-> "arg", key |-> o, val |-> None, str |-> "", chars |-> t] :
                     t \in PortTexts }
            ELSE { [tgt |-> "arg", key |-> o, val |-> None, str |-> t, chars |-> << >>] :
                     t \in StringsFor(o) } :
            o \in CmdOptions }

\* The sets of at most n changes, no two of the same key or option.
RECURSIVE PlansUpTo(_, _)
PlansUpTo(space, n) ==
    IF n = 0 THEN {{}}
    ELSE LET smaller == PlansUpTo(space, n - 1) IN
         smaller \cup
         UNION { { P \cup {e} : e \in {x \in space :
                                         \A y \in P : <<x.tgt, x.key>> # <<y.tgt, y.key>>} } :
                 P \in smaller }

Plans == PlansUpTo(FileEditSpace \cup ArgEditSpace, MaxEdits)
FilePlans == PlansUpTo(FileEditSpace, MaxEdits)

Touches(P, tgt, k) == \E e \in P : e.tgt = tgt /\ e.key = k
EditOf(P, tgt, k) == CHOOSE e \in P : e.tgt = tgt /\ e.key = k

\* The file f with the file changes of P: only a file that parses has keys.
EditFile(f, P) ==
    IF f.kind # "toml" THEN f
    ELSE [f EXCEPT !.map = [k \in AllKeys |->
                              IF Touches(P, "file", k)
                              THEN EditOf(P, "file", k).val ELSE f.map[k]]]

\* The command line a with the option changes of P.
EditArgs(a, P) ==
    [o \in CmdOptions |->
        IF ~Touches(P, "arg", o) THEN a[o]
        ELSE IF o \in PortOptions THEN Some(EditOf(P, "arg", o).chars)
        ELSE Some(EditOf(P, "arg", o).str)]

\* The file system with file f at the default path.
MkFs(f) ==
    IF f.kind = "absent" THEN [p \in {"alt.toml"} |-> AltFile]
    ELSE [p \in Paths |-> IF p = DEFAULT_CONFIG_FILE THEN f ELSE AltFile]

FieldValues(fld) ==
    CASE fld = "validator"    -> BOOLEAN
      [] fld = "keypair_path" -> {None, Some("node.kp")}
      [] fld = "log_level"    -> {"info", "trace"}
      [] fld \in {"network", "db_path", "bootstrap_path"} -> {"x", "o'clock"}
      [] fld \in {"rest_addr", "bridge_addr", "p2p_addr"} -> {"0.0.0.0"}
      [] fld \in {"block_timeout", "rest_port", "bridge_port"} -> {0, U16Modulus - 1}
      [] OTHER -> {0, U16Modulus}

RecordEdits(c) ==
    UNION { { [c EXCEPT ![fld] = v] : v \in FieldValues(fld) } : fld \in DOMAIN c }

RECURSIVE RecordsUpTo(_)
RecordsUpTo(n) ==
    IF n = 0 THEN {Default, create_test_config}
    ELSE RecordsUpTo(n - 1) \cup UNION {RecordEdits(c) : c \in RecordsUpTo(n - 1)}

TestRecords == RecordsUpTo(MaxEdits)

----------------------------------------------------------------------------
(* The state machine: one call from the initial state                      *)

Init ==
    /\ op = "init"
    /\ fs = << >>
    /\ argv = NoArgs
    /\ cfg_path = ""
    /\ rec = Default
    /\ outcome = "none"
    /\ config = None

\* The process starts: create_app_config() on a file system and a command line.
CreateAppConfig ==
    /\ op = "init"
    /\ \E f \in BaseFiles, a \in BaseArgs, P \in Plans :
         LET files == MkFs(EditFile(f, P))
             args == EditArgs(a, P)
             r == create_app_config(files, args)
         IN  /\ op' = "create_app_config"
             /\ fs' = files
             /\ argv' = args
             /\ cfg_path' = r.path
             /\ outcome' = r.outcome
             /\ config' = r.config
    /\ UNCHANGED rec

\* A caller reads a path with Config::from_file.
FromFile ==
    /\ op = "init"
    /\ \E f \in BaseFiles, P \in FilePlans, p \in Paths \cup {"nofile.toml"} :
         LET files == MkFs(EditFile(f, P))
             r == from_file(files, p)
         IN  /\ op' = "from_file"
             /\ fs' = files
             /\ cfg_path' = p
             /\ outcome' = IF IsSome(r) THEN "Some" ELSE "None"
             /\ config' = r
    /\ UNCHANGED <<argv, rec>>

\* tests::from_file on a record.
TestFromFile ==
    /\ op = "init"
    /\ \E c \in TestRecords :
         LET r == test_from_file(c) IN
         /\ op' = "test_from_file"
         /\ rec' = c
         /\ fs' = r.files
         /\ cfg_path' = TempFile
         /\ outcome' = r.outcome
         /\ config' = r.config
    /\ UNCHANGED argv

Next == CreateAppConfig \/ FromFile \/ TestFromFile

Spec == Init /\ [][Next]_vars

----------------------------------------------------------------------------
(* The vocabulary of the properties: what the specification document says, *)
(* stated without the operators above.                                     *)

\* The enumeration of log levels.
LogLevels == {"off", "error", "warn", "info", "debug", "trace"}

\* The defaults table.
DefaultsTable ==
    [ log_level       |-> "info",
      validator       |-> FALSE,
      keypair_path    |-> << >>,
      network         |-> "skynet",
      block_threshold |-> 42,
      block_timeout   |-> 3,
      rest_addr       |-> "127.0.0.1",
      rest_port       |-> 8000,
      bridge_addr     |-> "127.0.0.1",
      bridge_port     |-> 8001,
      p2p_addr        |-> "127.0.0.1",
      db_path         |-> "db",
      bootstrap_path  |-> "data/bootstrap.wasm",
      wm_cache_max    |-> 10 ]

\* The field a file key names, and the shape of value the field takes.
FieldOfKey(k) ==
    CASE k = "validator"       -> "validator"
      [] k = "log-level"       -> "log_level"
      [] k = "keypair-path"    -> "keypair_path"
      [] k = "network"         -> "network"
      [] k = "rest-addr"       -> "rest_addr"
      [] k = "rest-port"       -> "rest_port"
      [] k = "bridge-addr"     -> "bridge_addr"
      [] k = "bridge-port"     -> "bridge_port"
      [] k = "p2p-addr"        -> "p2p_addr"
      [] k = "block-threshold" -> "block_threshold"
      [] k = "block-timeout"   -> "block_timeout"
      [] k = "db-path"         -> "db_path"
      [] k = "bootstrap-path"  -> "bootstrap_path"
      [] k = "wm-cache-max"    -> "wm_cache_max"

ShapeOfKey(k) ==
    IF k = "validator" THEN "Boolean"
    ELSE IF k \in {"rest-port", "bridge-port", "block-threshold", "block-timeout",
                   "wm-cache-max"} THEN "Integer"
    ELSE "String"

\* The options that carry a string to a field, with the field's file key.
StringOptions == {"log-level", "network", "db-path", "bootstrap-path",
                  "http-addr", "bridge-addr", "p2p-addr"}

KeyOfOption(o) ==
    CASE o = "http-addr" -> "rest-addr"
      [] o = "http-port" -> "rest-port"
      [] OTHER           -> o

\* The decimal value of a text of digits, and the texts that denote a u16.
Numeral(c) == (CHOOSE n \in 1..10 : <<"0", "1", "2", "3", "4", "5", "6", "7", "8", "9">>[n] = c) - 1

DigitsOfText(t) == IF Len(t) > 0 /\ t[1] = "+" THEN Tail(t) ELSE t

RECURSIVE DecimalValue(_)
DecimalValue(d) ==
    IF Len(d) = 0 THEN 0
    ELSE 10 * DecimalValue(SubSeq(d, 1, Len(d) - 1)) + Numeral(d[Len(d)])

IsU16Text(t) ==
    /\ Len(DigitsOfText(t)) >= 1
    /\ \A n \in 1..Len(DigitsOfText(t)) : DigitsOfText(t)[n] \in Digits
    /\ DecimalValue(DigitsOfText(t)) <= 65535

\* The path the command line selects, and the state of the file there.
SelectedPath == IF IsSome(argv["config"]) THEN Unwrap(argv["config"]) ELSE "config.toml"

FileMissing(p) == p \notin DOMAIN fs
FileMalformed(p) == p \in DOMAIN fs /\ fs[p].kind = "malformed"
FileParses(p) == p \in DOMAIN fs /\ fs[p].kind = "toml"

\* What the file at p holds for key k, when it parses.
Held(p, k) == fs[p].map[k]
HoldsShape(p, k, shape) ==
    FileParses(p) /\ IsSome(Held(p, k)) /\ Unwrap(Held(p, k)).t = shape

\* The command line is one the argument parser accepts when no --log-level
\* value is at stake: it names no unknown option.
NoUnknownOption == \A o \in DOMAIN argv : o \in RegisteredArgs \/ ~IsSome(argv[o])
LogLevelGiven == IsSome(argv["log-level"])
LogLevelBogus == LogLevelGiven /\ Unwrap(argv["log-level"]) \notin LogLevels

Resolved == op = "create_app_config" /\ outcome = "record"

\* The argument overlay of the document on a record.
DocArgOverlay(base, args) ==
    [ base EXCEPT
      !.validator      = IF IsSome(args["validator"]) THEN TRUE ELSE @,
      !.log_level      = IF IsSome(args["log-level"]) THEN Unwrap(args["log-level"]) ELSE @,
      !.network        = IF IsSome(args["network"]) THEN Unwrap(args["network"]) ELSE @,
      !.db_path        = IF IsSome(args["db-path"]) THEN Unwrap(args["db-path"]) ELSE @,
      !.bootstrap_path = IF IsSome(args["bootstrap-path"])
                         THEN Unwrap(args["bootstrap-path"]) ELSE @,
      !.rest_addr      = IF IsSome(args["http-addr"]) THEN Unwrap(args["http-addr"]) ELSE @,
      !.rest_port      = IF IsSome(args["http-port"]) /\ IsU16Text(Unwrap(args["http-port"]))
                         THEN DecimalValue(DigitsOfText(Unwrap(args["http-port"]))) ELSE @,
      !.bridge_addr    = IF IsSome(args["bridge-addr"]) THEN Unwrap(args["bridge-addr"]) ELSE @,
      !.bridge_port    = IF IsSome(args["bridge-port"]) /\ IsU16Text(Unwrap(args["bridge-port"]))
                         THEN DecimalValue(DigitsOfText(Unwrap(args["bridge-port"]))) ELSE @,
      !.p2p_addr       = IF IsSome(args["p2p-addr"]) THEN Unwrap(args["p2p-addr"]) ELSE @ ]

\* The file system with key k of the file at p removed.
Without(files, p, k) == [files EXCEPT ![p].map[k] = None]

\* The pairs of a port's file key, its option and its field.
PortRoutes == { <<"rest-port", "http-port", "rest_port">>,
                <<"bridge-port", "bridge-port", "bridge_port">> }

----------------------------------------------------------------------------
(* Properties                                                              *)

\* C1. Round trip: the serialisation test passes on every record, that is,
\* from_file on the file Display wrote returns a record equal to the one
\* written, in every field.
RoundTrip ==
    op = "test_from_file" => IsSome(config) /\ Unwrap(config) = rec

\* C2. Precedence: for every field with an option, when the file holds a
\* value of the field's shape, the resolved field is the option's value if the
\* command line gives a valid one, and the file's value if the command line
\* does not give the option.
Precedence ==
    Resolved /\ FileParses(SelectedPath) =>
        /\ \A o \in StringOptions :
              HoldsShape(SelectedPath, KeyOfOption(o), "String") =>
                 Unwrap(config)[FieldOfKey(KeyOfOption(o))] =
                    IF IsSome(argv[o]) THEN Unwrap(argv[o])
                    ELSE Unwrap(Held(SelectedPath, KeyOfOption(o))).s
        /\ \A r \in PortRoutes :
              HoldsShape(SelectedPath, r[1], "Integer") =>
                 /\ IsSome(argv[r[2]]) /\ IsU16Text(Unwrap(argv[r[2]])) =>
                       Unwrap(config)[r[3]] = DecimalValue(DigitsOfText(Unwrap(argv[r[2]])))
                 /\ ~IsSome(argv[r[2]]) =>
                       Unwrap(config)[r[3]] = Unwrap(Held(SelectedPath, r[1])).i % 65536
        /\ HoldsShape(SelectedPath, "validator", "Boolean") =>
              Unwrap(config).validator =
                 IF IsSome(argv["validator"]) THEN TRUE
                 ELSE Unwrap(Held(SelectedPath, "validator")).b

MissingFileTolerance ==
    /\ op = "from_file" /\ FileMissing(cfg_path) =>
          IsSome(config) /\ Unwrap(config) = DefaultsTable
    /\ op = "create_app_config" /\ FileMissing(SelectedPath)
          /\ NoUnknownOption /\ ~LogLevelBogus =>
          outcome = "record" /\ Unwrap(config) = DocArgOverlay(DefaultsTable, argv)

\* C5. Per-field tolerance of the file overlay: on a file that parses,
\* from_file returns a record; a recognized key whose value has the wrong
\* shape leaves its field at the default and the record equal to the one of
\* the same file without the key; the unrecognized key changes no field.
PerFieldTolerance ==
    op = "from_file" /\ FileParses(cfg_path) =>
        /\ outcome = "Some"
        /\ \A k \in Keys :
              IsSome(Held(cfg_path, k)) /\ Unwrap(Held(cfg_path, k)).t # ShapeOfKey(k) =>
                 /\ Unwrap(config)[FieldOfKey(k)] = DefaultsTable[FieldOfKey(k)]
                 /\ config = from_file(Without(fs, cfg_path, k), cfg_path)
        /\ config = from_file(Without(fs, cfg_path, UnknownKey), cfg_path)

\* network = "..." is applied beside a block-threshold that is a string, and
\* block_threshold stays 42.
PerFieldToleranceWitness ==
    /\ op = "from_file"
    /\ FileParses(cfg_path)
    /\ HoldsShape(cfg_path, "network", "String")
    /\ HoldsShape(cfg_path, "block-threshold", "String")
    /\ Unwrap(config).network = Unwrap(Held(cfg_path, "network")).s
    /\ Unwrap(config).block_threshold = 42

BootstrapPathOverrides ==
    Resolved /\ IsSome(argv["bootstrap-path"]) =>
        Unwrap(config).bootstrap_path = Unwrap(argv["bootstrap-path"])

\* C8. In every resolved record log_level is one of the six levels.
LogLevelEnumerated ==
    Resolved => Unwrap(config).log_level \in LogLevels

\* C9. 16-bit narrowing: an integer v at rest-port or bridge-port of a file
\* that parses always overwrites the field, and without the option of the
\* field on the command line the field is v modulo 65536.
SixteenBitNarrowing ==
    \A r \in PortRoutes :
        /\ op \in {"from_file", "create_app_config"}
        /\ FileParses(cfg_path)
        /\ HoldsShape(cfg_path, r[1], "Integer")
        /\ ~IsSome(argv[r[2]])
        => /\ IsSome(config)
           /\ Unwrap(config)[r[3]] = Unwrap(Held(cfg_path, r[1])).i % 65536

\* rest-port = -1 resolves to 65535.
SixteenBitNarrowingWitness ==
    /\ op = "from_file"
    /\ FileParses(cfg_path)
    /\ HoldsShape(cfg_path, "rest-port", "Integer")
    /\ Unwrap(Held(cfg_path, "rest-port")).i = -1
    /\ Unwrap(config).rest_port = 65535

\* C10. Port options are skipped, not truncated: on a command line the
\* parser accepts and a file that is not malformed a record is produced; a
\* port option whose text denotes a u16 sets its field to that number and
\* changes no other field; one whose text does not leaves the record equal to
\* the one of the same command line without the option, the field at its
\* value from the file or the defaults.
CliPortCoercion ==
    op = "create_app_config" /\ NoUnknownOption /\ ~LogLevelBogus
        /\ ~FileMalformed(SelectedPath) =>
        /\ outcome = "record"
        /\ \A r \in PortRoutes :
              IsSome(argv[r[2]]) =>
                 LET without == Unwrap(create_app_config(fs, [argv EXCEPT ![r[2]] = None]).config)
                     text == Unwrap(argv[r[2]])
                 IN  IF IsU16Text(text)
                     THEN /\ Unwrap(config)[r[3]] = DecimalValue(DigitsOfText(text))
                          /\ [Unwrap(config) EXCEPT ![r[3]] = without[r[3]]] = without
                     ELSE /\ Unwrap(config) = without
                          /\ Unwrap(config)[r[3]] = Unwrap(from_file(fs, SelectedPath))[r[3]]

\* --http-port 70000 beside --network: rest_port keeps the file's 1111 and
\* the network override is applied.
CliPortCoercionWitness ==
    /\ Resolved
    /\ argv["http-port"] = Some(<<"7", "0", "0", "0", "0">>)
    /\ IsSome(argv["network"])
    /\ HoldsShape(SelectedPath, "rest-port", "Integer")
    /\ Unwrap(config).rest_port = Unwrap(Held(SelectedPath, "rest-port")).i
    /\ Unwrap(config).network = Unwrap(argv["network"])

=============================================================================
